---- MODULE Spec2Model ----
(***************************************************************************)
(* SlotReel (src/src/index.ts): the per-reel angular state machine, the    *)
(* deceleration law, the idle wobble, the staggered stop timers and the    *)
(* spin queue.                                                             *)
(*                                                                         *)
(* Units.  Angles are fixed-point integers, AngleScale quanta per          *)
(* milliradian (one quantum = 0.05 mrad); times are integer milliseconds;  *)
(* speeds are radians per second, which is milliradians per millisecond.   *)
(* Products the code computes in floating point are rounded to the         *)
(* nearest quantum.                                                        *)
(***************************************************************************)
EXTENDS Integers, Sequences, FiniteSets, TLC

(* ------------------------------ units --------------------------------- *)

AngleScale == 20

\* 2 * Math.PI in milliradians, and in quanta (the segment angle and its
\* half are whole quanta for cylinderSegments = 5).
TwoPiMilliRad == 6283
TwoPi == TwoPiMilliRad * AngleScale

\* One quantum in microradians.
QuantumMicroRad == 1000 \div AngleScale

(* ------------------------ program constants --------------------------- *)

cylinderCount == 3
cylinderSegments == 5
\* rotationSpeed (rad/s) and spinSpeedMultiplier are options of the caller.
rotationSpeed == 1
spinSpeedMultiplier == 10
STOP_DELAY_MS == 2500
STOP_DELAY_BETWEEN_CYLINDERS_MS == 250
RESIZE_DEBOUNCE_MS == 150
\* Math.abs(diff) < 0.0001 (radians), in microradians.
SnapThresholdMicroRad == 100
\* amplitude = 0.1 rad, in milliradians.
amplitudeMilliRad == 100
\* wobbleEaseDuration = 1 s, in milliseconds.
wobbleEaseDuration == 1000
\* frequency = 1.25 rad/s: one wobble period is 2*pi/1.25 = 5026.5 ms,
\* rounded to the frame grid.
WobblePeriodMs == 5000

amplitude == amplitudeMilliRad * AngleScale

Reels == 1..cylinderCount

(* ----------------------------- bounds --------------------------------- *)

\* Number of SpinStates the caller queues.
QueueLen == 2
\* Clicks on the button after the queue has drained.
MaxClicks == 2

\* The largest cylinderSegments getSegmentAngle is applied to, and the
\* number of turns the reel angles it is given span.
MaxSegments == 8
MaxTurns == 3
MaxResizes == 4

\* The frame intervals (clock.getDelta(), in ms) a run may have: with the
\* spin speed above, speed * delta is 0.8, 1.6 and 2.4 times 2*PI.
DeltaTimes == {500, 1000, 1500}

(* --------------------------- number helpers --------------------------- *)

\* Sentinels for the two non-numeric values an angle field can hold.
Null == -2000000001
NaN == -2000000000

IsNum(x) == x # Null /\ x # NaN

Abs(x) == IF x < 0 THEN -x ELSE x
Sign(x) == IF x > 0 THEN 1 ELSE IF x < 0 THEN -1 ELSE 0
Min(a, b) == IF a < b THEN a ELSE b

\* a / b rounded to the nearest integer, b > 0.
RoundDiv(a, b) == Sign(a) * ((Abs(a) + b \div 2) \div b)

\* NaN-propagating addition and subtraction.
Add(a, b) == IF a = NaN \/ b = NaN THEN NaN ELSE a + b
Sub(a, b) == IF a = NaN \/ b = NaN THEN NaN ELSE a - b

(* --------------------------- pure functions --------------------------- *)

\* getSegmentAngle with the segment taken as 0-based.
getSegmentAngleZeroBased(segment) ==
    LET segmentAngle == TwoPi \div cylinderSegments
        offset == segmentAngle \div 2
    IN  IF segment = NaN THEN NaN
        ELSE TwoPi - (segment * segmentAngle + offset)

\* The segment angle without the half-segment offset.
SegmentAngleWithoutOffset(segment, segments) ==
    LET segmentAngle == TwoPi \div segments
    IN  IF segment = NaN THEN NaN
        ELSE TwoPi - ((segment - 1) * segmentAngle)

\* The body of getSegmentAngle for a reel of `segments` symbols:
\* 2*PI - ((segment - 1) * segmentAngle + offset); NaN for an undefined
\* segment (a stop list shorter than the reel count).
SegmentAngle(segment, segments) ==
    LET segmentAngle == TwoPi \div segments
        offset == segmentAngle \div 2
    IN  IF segment = NaN THEN NaN
        ELSE TwoPi - ((segment - 1) * segmentAngle + offset)

\* getSegmentAngle, with cylinderSegments read from the options.
getSegmentAngle(segment) == SegmentAngle(segment, cylinderSegments)

\* The entry of the next reel in place of the reel's own.
SegmentAtNext(finalSegments, i) ==
    LET j == (i % cylinderCount) + 1
    IN  IF j <= Len(finalSegments) THEN finalSegments[j] ELSE NaN

\* finalSegments[i] of a JavaScript array: undefined (NaN once used in
\* arithmetic) past the end.  Reels are numbered from 1 here, from 0 there.
SegmentAt(finalSegments, i) ==
    IF i <= Len(finalSegments) THEN finalSegments[i] ELSE NaN

\* The last n entries in place of the first.
SliceFromEnd(s, n) == SubSeq(s, Len(s) - Min(n, Len(s)) + 1, Len(s))

\* Array.prototype.slice(0, n).
Slice(s, n) == SubSeq(s, 1, Min(n, Len(s)))

\* The landing angle without the two extra turns.
LandingAngleNoExtraTurns(segment, theta) ==
    Add(getSegmentAngle(segment), IF theta = NaN THEN NaN ELSE (theta \div TwoPi) * TwoPi)

\* The landing angle with one extra turn in place of two.
LandingAngleOneExtraTurn(segment, theta) ==
    Add(getSegmentAngle(segment),
        IF theta = NaN THEN NaN ELSE ((theta \div TwoPi) + 1) * TwoPi)

\* The target of a reel at raw angle theta that is to land on segment (323-326).
LandingAngle(segment, theta) ==
    LET targetAngle == getSegmentAngle(segment)
        fullRotations == (theta \div TwoPi) + 2
    IN  Add(targetAngle, IF theta = NaN THEN NaN ELSE fullRotations * TwoPi)

\* Math.sin over one period, in thousandths, sampled on SineSectors sectors.
SineSectors == 8
SinMilli(k) ==
    CASE k = 0 -> 0
      [] k = 1 -> 707
      [] k = 2 -> 1000
      [] k = 3 -> 707
      [] k = 4 -> 0
      [] k = 5 -> -707
      [] k = 6 -> -1000
      [] k = 7 -> -707

\* The full amplitude from the first frame on.
EasedAmplitudeUnramped(elapsed) == amplitude

\* Math.min(amplitude, (elapsed / wobbleEaseDuration) * amplitude).
EasedAmplitude(elapsed) ==
    Min(amplitude, (elapsed * amplitude) \div wobbleEaseDuration)

\* restAngle + easedAmplitude * Math.sin(currentTime * frequency + phase).
WobbleAngle(restAngle, elapsed, currentTime, phase) ==
    LET sector == (((currentTime % WobblePeriodMs) * SineSectors) \div WobblePeriodMs
                   + phase) % SineSectors
    IN  Add(restAngle, RoundDiv(EasedAmplitude(elapsed) * SinMilli(sector), 1000))

\* The angle a Spinning reel moves in one frame of deltaTime milliseconds:
\* currentSpeed * deltaTime (242).
SpinStep(currentSpeed, deltaTime) == currentSpeed * deltaTime * AngleScale

\* The deceleration smoothness is kept in hundredths; index.ts divides by
\* 2*PI alone (smoothness 1), the variant with the decelerationEase option by
\* smoothness * 2*PI with 1.5 as the default and 1.75 as the fallback.
SmoothnessScale == 100
Smoothness == SmoothnessScale
Smoothnesses == { SmoothnessScale, 150, 175 }

\* The speed without Math.min(1, ...).
StoppingSpeedUncapped(diff, currentSpeed, smoothness) ==
    currentSpeed * SmoothnessScale * Abs(diff)

\* The speed of a Stopping reel in one frame (253-254):
\* currentSpeed * Math.min(1, Math.abs(diff) / (smoothness * 2*PI)),
\* as a multiple of 1 / (smoothness * TwoPi) rad/s.
StoppingSpeed(diff, currentSpeed, smoothness) ==
    currentSpeed * Min(smoothness * TwoPi, SmoothnessScale * Abs(diff))

\* The angle a Stopping reel moves in one frame (253-255):
\* Math.sign(diff) * speed * deltaTime.
DecelerationStep(diff, currentSpeed, deltaTime) ==
    Sign(diff) * RoundDiv((StoppingSpeed(diff, currentSpeed, Smoothness) \div Smoothness)
                            * deltaTime, TwoPiMilliRad)

\* A snap threshold of a hundredth of a turn.
BelowWideSnapThreshold(diff) == Abs(diff) < TwoPi \div 100

\* Math.abs(diff) < 0.0001
BelowSnapThreshold(diff) == Abs(diff) * QuantumMicroRad < SnapThresholdMicroRad

(* ------------------------------- inputs ------------------------------- *)

\* Stop-segment lists a caller may queue: one entry per reel, one entry too
\* many, and one too short.
StopLists == { <<3, 1, 4>>, <<2, 5, 1, 3>>, <<4>> }

\* initialSegments: the default (empty), one entry per reel, one entry only
\* and one entry too many.
InitialLists == { <<>>, <<1, 3, 5>>, <<2>>, <<1, 3, 5, 2>> }

\* The initialSegments the spins are explored from: the default, which
\* leaves every reel at angle 0, and the list that is applied.
SpinInitialLists == { l \in InitialLists : l = <<>> \/ Len(l) = cylinderCount }

\* Sizes (clientWidth, clientHeight) the container takes.
Sizes == { << 800, 600 >>, << 1024, 768 >>, << 400, 300 >> }

\* Math.random() * Math.PI * 2 per reel, as a sector of the sine table.
PhaseChoices == { <<0, 3, 6>> }

\* spinStates: a queue of up to QueueLen SpinStates (the default is the
\* empty one); the callback of the j-th is named j.
Queues ==
    UNION { { q \in [1..n -> [finalSegments : StopLists, callback : 1..QueueLen]] :
                \A j \in 1..n : q[j].callback = j } : n \in 0..QueueLen }

\* Reel angles (cylinder.rotation.x) a target is computed from: the segment
\* centres and borders of every turn from one below zero up to MaxTurns, and
\* the angles one quantum beside them.
Thetas ==
    { k * (TwoPi \div (2 * cylinderSegments)) + e :
        k \in (-2 * cylinderSegments)..(2 * cylinderSegments * MaxTurns), e \in {-1, 0, 1} }

\* Distances targetAngle - rotation.x of a Stopping reel: the eighths of a
\* turn up to MaxTurns on either side of the target, and the distances one
\* quantum beside them.
Diffs ==
    { k * (TwoPi \div 8) + e : k \in (-8 * MaxTurns)..(8 * MaxTurns), e \in {-1, 0, 1} }

\* currentSpinState = null
NoSpin == [finalSegments |-> <<>>, callback |-> 0]

(* --------------- numbers of the one-state variant --------------------- *)

\* The variant's speeds are JavaScript Numbers that are multiplied and
\* divided (unnamed/part_004 313-315, 342-344), so their rounding is kept: a
\* speed is a binary floating-point number whose significand has Precision
\* bits (53 in a double), written as a whole number of 1/SpeedScale rad/s.
Precision == 5
SpeedScale == 256

\* The unit in the last place of n / d: the largest power of two u, from u
\* on, with 2^(Precision - 1) * u <= n / d.
RECURSIVE UlpOf(_, _, _)
UlpOf(n, d, u) ==
    IF n >= (2 ^ (Precision - 1)) * (2 * u) * d THEN UlpOf(n, d, 2 * u) ELSE u

\* n / d rounded to the nearest integer, a tie to the even one.
RoundHalfEven(n, d) ==
    LET q == n \div d
        r == n % d
    IN  IF 2 * r < d THEN q
        ELSE IF 2 * r > d THEN q + 1
        ELSE IF q % 2 = 0 THEN q ELSE q + 1

\* The Number nearest to n / d (n >= 0, d > 0, and n / d at least
\* 2^(Precision - 1) unless n is 0).
Float(n, d) ==
    IF n = 0 THEN 0
    ELSE LET u == UlpOf(n, d, 1) IN RoundHalfEven(n, d * u) * u

\* speed * factor and speed / divisor as the program computes them.
FloatTimes(speed, factor) == Float(speed * factor, 1)
FloatOver(speed, divisor) == Float(speed, divisor)

\* 0.003 rad (unnamed/part_004 59), in microradians.
STOP_THRESHOLD == 3000

\* options.rotationSpeeds: the default (empty), one speed for all reels
\* (1 rad/s), and one speed per reel (0.96875, 1 and 1 rad/s).
SpeedLists == { <<>>, <<256>>, <<248, 256, 256>> }

\* The constructor's currentSpeeds (unnamed/part_004 89-91):
\* rotationSpeeds[i % rotationSpeeds.length] || 0, which is 0 for an empty
\* list, whose every index is undefined.
ConstructedSpeeds(speeds) ==
    [i \in Reels |-> IF Len(speeds) = 0 THEN 0
                     ELSE speeds[((i - 1) % Len(speeds)) + 1]]

(* ------------------------------- state -------------------------------- *)

VARIABLES
    options,             \* this.options: spinStates, finalCallback
    phase,               \* "constructed", "running" (init done), "noContainer"
    rotation,            \* cylinders[i].rotation.x
    cylinderStates,      \* [currentSpeed, targetAngle, status] per reel
    currentGlobalState,  \* "rest", "spinning", "stopping"
    spinQueue,
    currentSpinState,
    restAngles,
    phaseOffsets,
    wobbleElapsed,       \* currentTime - wobbleStartTime, saturating at wobbleEaseDuration
    clockTime,           \* clock.getElapsedTime() modulo the wobble period
    pendingDelta,        \* time since the last clock.getDelta()
    timers,              \* pending setTimeout callbacks, in creation order
    pointerdownBound,    \* startNextSpin is bound to the button's pointerdown
    clickListeners,      \* finalCallback listeners bound to the button's click
    bodyClasses,         \* document.body.classList
    completed,           \* history: callbacks invoked, in order
    finalCalls,          \* history: invocations of finalCallback
    lastAction,          \* history: the handler that ran last
    lastReel,            \* history: the reel of the last stagger callback
    frameInterval,       \* the frame interval of this run
    spinAge,             \* history: ms since the spin in flight started, up to STOP_DELAY_MS
    boundaryAge,         \* history: ms since the last phase boundary, up to BoundaryAgeCap
    boundaryCalls,       \* history: phase boundary callbacks run
    callbackView,        \* history: what the last completion callback found when invoked
    fnCall,              \* the pure function applied: "none", "getSegmentAngle", "LandingAngle"
    fnSegments,          \* its inputs: cylinderSegments,
    fnSegment,           \*   the segment,
    fnTheta,             \*   the reel's angle,
    fnDiff,              \*   the distance to the target,
    fnSmoothness,        \*   the deceleration smoothness;
    fnResult,            \* its result
    containerFound,      \* whether the container selector matches an element
    resizeObserved,      \* the ResizeObserver observes the container
    containerSize,       \* the container's clientWidth and clientHeight
    rendererSize,        \* the size last given to the renderer
    resizeTimeout,       \* this.resizeTimeout: a timer id, or 0 for undefined
    resizeTimers,        \* the pending timers set by the observer callback
    resizeEvents,        \* history: observer callbacks run
    layoutRecomputes,    \* history: onResize calls
    bursts,              \* history: observer callbacks run with no timer pending
    sinceResize,         \* history: ms since the last observer callback, up to the delay
    framesPending,       \* requestAnimationFrame callbacks requested and not yet run
    frameTrace,          \* history: what the last frame did, in order
    rotationSpeeds,      \* global-state variant: options.rotationSpeeds
    currentState,        \*   this.currentState: "rest", "spinning", "stopping"
    currentSpeeds,       \*   this.currentSpeeds, one per reel
    targetAngles,        \*   this.targetAngles
    spinStates,          \*   this.spinStates: the requests not yet started
    optionsFinalSegments \*   options.finalSegments

vars == << options, phase, rotation, cylinderStates, currentGlobalState, spinQueue,
           currentSpinState, restAngles, phaseOffsets, wobbleElapsed, clockTime,
           pendingDelta, timers, pointerdownBound, clickListeners, bodyClasses,
           completed, finalCalls, lastAction, lastReel, frameInterval,
           spinAge, boundaryAge, boundaryCalls, callbackView,
           fnCall, fnSegments, fnSegment, fnTheta, fnDiff, fnSmoothness, fnResult,
           containerFound, resizeObserved, containerSize, rendererSize, resizeTimeout,
           resizeTimers, resizeEvents, layoutRecomputes, bursts, sinceResize,
           framesPending, frameTrace,
           rotationSpeeds, currentState, currentSpeeds, targetAngles, spinStates,
           optionsFinalSegments >>

\* The variables of the frame loop.
frameVars == << framesPending, frameTrace >>

\* The fields of the variant that keeps one state for all reels
\* (unnamed/part_004 60-84), which index.ts does not have.
globalVars == << rotationSpeeds, currentState, currentSpeeds, targetAngles, spinStates,
                optionsFinalSegments >>

\* The variables of the resize handling.
resizeVars == << resizeObserved, containerSize, rendererSize, resizeTimeout,
                resizeTimers, resizeEvents, layoutRecomputes, bursts, sinceResize >>

\* The variables of the pure-function calls.
fnVars == << fnCall, fnSegments, fnSegment, fnTheta, fnDiff, fnSmoothness, fnResult >>

\* No completion callback has been invoked yet.
NoView == [currentGlobalState |-> "none", restAngles |-> <<>>, wobbleElapsed |-> -1,
           statuses |-> <<>>]

\* The constructor (index.ts 91-101; unnamed/part_004 86-94 for the fields
\* of the one-state variant).
Constructed ==
    /\ options \in [spinStates : Queues, finalCallback : {TRUE},
                     initialSegments : InitialLists]
    /\ containerFound \in BOOLEAN
    /\ resizeObserved = FALSE
    /\ containerSize = << 800, 600 >>
    /\ rendererSize = << 0, 0 >>
    /\ resizeTimeout = 0
    /\ resizeTimers = {}
    /\ resizeEvents = 0
    /\ layoutRecomputes = 0
    /\ bursts = 0
    /\ sinceResize = RESIZE_DEBOUNCE_MS
    /\ framesPending = 0
    /\ frameTrace = <<>>
    /\ phase = "constructed"
    /\ rotation = [i \in Reels |-> 0]
    /\ cylinderStates = [i \in Reels |->
          [currentSpeed |-> rotationSpeed, targetAngle |-> Null, status |-> "rest"]]
    /\ currentGlobalState = "rest"
    /\ spinQueue = options.spinStates
    /\ currentSpinState = NoSpin
    /\ restAngles = [i \in Reels |-> 0]
    /\ phaseOffsets = [i \in Reels |-> 0]
    /\ wobbleElapsed = 0
    /\ clockTime = 0
    /\ pendingDelta = 0
    /\ timers = <<>>
    /\ pointerdownBound = FALSE
    /\ clickListeners = 0
    /\ bodyClasses = {}
    /\ completed = <<>>
    /\ finalCalls = 0
    /\ lastAction = "constructor"
    /\ lastReel = 0
    /\ spinAge = 0
    /\ boundaryAge = 0
    /\ boundaryCalls = 0
    /\ callbackView = NoView
    /\ rotationSpeeds \in SpeedLists
    /\ currentState = "rest"
    /\ currentSpeeds = ConstructedSpeeds(rotationSpeeds)
    /\ targetAngles = [i \in Reels |-> Null]
    /\ spinStates = options.spinStates
    /\ optionsFinalSegments = <<>>

Init ==
    /\ Constructed
    /\ rotationSpeeds = <<>>
    /\ options.initialSegments \in SpinInitialLists
    /\ frameInterval \in DeltaTimes
    /\ fnCall = "none"
    /\ fnSegments = cylinderSegments
    /\ fnSegment = 1
    /\ fnTheta = 0
    /\ fnDiff = 0
    /\ fnSmoothness = Smoothness
    /\ fnResult = 0

(* ------------------------------- init() ------------------------------- *)

\* initialSegments applied whenever there are enough of them.
InitialSegmentsApplyAtLeast(initialSegments) == Len(initialSegments) >= cylinderCount

\* initialSegments are applied only when there is one per reel (122-124).
InitialSegmentsApply(initialSegments) == Len(initialSegments) = cylinderCount

\* A container that is taken to be there whatever the selector matches.
ContainerNeverMissing(container) == FALSE

\* if (!container) return; (106)
ContainerMissing(container) == ~container

\* init() (103-135): phases are the Math.random() phase offsets.
init(phases) ==
    /\ phase = "constructed"
    /\ lastAction' = "init"
    /\ IF ContainerMissing(containerFound)
       THEN /\ phase' = "noContainer"
            /\ UNCHANGED << rotation, restAngles, phaseOffsets, pointerdownBound,
                            bodyClasses, wobbleElapsed, clockTime, pendingDelta,
                            resizeObserved, rendererSize, framesPending >>
       ELSE /\ phase' = "running"
            /\ framesPending' = framesPending + 1
            /\ rendererSize' = containerSize
            /\ phaseOffsets' = phases
            /\ pointerdownBound' = TRUE
            /\ rotation' = IF InitialSegmentsApply(options.initialSegments)
                           THEN [i \in Reels |-> getSegmentAngle(options.initialSegments[i])]
                           ELSE rotation
            /\ restAngles' = rotation'
            /\ wobbleElapsed' = 0
            /\ clockTime' = 0
            /\ pendingDelta' = 0
            /\ bodyClasses' = bodyClasses \ {"is-spinning-going", "is-spinning-stopped"}
            /\ resizeObserved' = TRUE
    /\ UNCHANGED << options, cylinderStates, currentGlobalState, spinQueue,
                    currentSpinState, timers, clickListeners, completed, finalCalls,
                    lastReel, frameInterval, spinAge, boundaryAge, boundaryCalls,
                    callbackView, fnVars, containerFound, containerSize, resizeTimeout,
                    resizeTimers, resizeEvents, layoutRecomputes, bursts, sinceResize,
                    frameTrace, globalVars >>

(* --------------------------- startNextSpin ---------------------------- *)

\* Variants of the guard that forget the phase, test the wrong one, or
\* forget the queue.
SpinAcceptedIgnoringPhase == Len(spinQueue) > 0
SpinAcceptedUnlessStopping == currentGlobalState # "stopping" /\ Len(spinQueue) > 0
SpinAcceptedIgnoringQueue == currentGlobalState = "rest"

\* The body classes of a spin under way (295-296).
GoingClasses(classes) == (classes \ {"is-spinning-stopped"}) \cup {"is-spinning-going"}

\* The class of a settled spin added, none removed.
StoppedClassesKeepingGoing(classes) == classes \cup {"is-spinning-stopped"}

\* The body classes of a settled spin (339-340).
StoppedClasses(classes) == (classes \ {"is-spinning-going"}) \cup {"is-spinning-stopped"}

\* The guard of startNextSpin (293), negated: the call goes ahead.
SpinAccepted == currentGlobalState = "rest" /\ Len(spinQueue) > 0

\* Array.prototype.pop() in place of shift(): the last request.
PoppedRequest(queue) == queue[Len(queue)]

\* this.spinQueue.shift() ?? null (298): the request taken, null from an
\* empty queue, and the queue left.
ShiftedRequest(queue) == IF queue = <<>> THEN NoSpin ELSE Head(queue)

\* A request read without being taken off the queue.
ShiftedQueueUntouched(queue) == queue

ShiftedQueue(queue) == IF queue = <<>> THEN queue ELSE Tail(queue)

\* The effective stop list (309-312).
EffectiveSegments(finalSegments) ==
    IF Len(finalSegments) = cylinderCount THEN finalSegments
    ELSE Slice(finalSegments, cylinderCount)

\* The base speed, the multiplier forgotten.
SpinSpeedWithoutMultiplier == rotationSpeed

\* The speed every reel gets when a spin starts (305).
SpinSpeed == rotationSpeed * spinSpeedMultiplier

\* A timer that is due at once, whatever its delay.
TimerImmediate(kind, reel, delay, finalSegments) ==
    [kind |-> kind, reel |-> reel, remaining |-> 0, finalSegments |-> finalSegments]

\* setTimeout(callback, delay): appended to the pending timers.
Timer(kind, reel, delay, finalSegments) ==
    [kind |-> kind, reel |-> reel, remaining |-> delay, finalSegments |-> finalSegments]

\* startNextSpin (292-331), the handler of the button's pointerdown.
startNextSpin ==
    /\ phase = "running"
    /\ pointerdownBound
    /\ lastAction' = "startNextSpin"
    /\ IF ~SpinAccepted
       THEN UNCHANGED << bodyClasses, currentSpinState, spinQueue, currentGlobalState,
                         cylinderStates, timers, spinAge >>
       ELSE /\ bodyClasses' = GoingClasses(bodyClasses)
            /\ currentSpinState' = ShiftedRequest(spinQueue)
            /\ spinQueue' = ShiftedQueue(spinQueue)
            /\ IF currentSpinState' = NoSpin
               THEN UNCHANGED << currentGlobalState, cylinderStates, timers, spinAge >>
               ELSE /\ currentGlobalState' = "spinning"
                    /\ spinAge' = 0
                    /\ cylinderStates' = [i \in Reels |->
                          [cylinderStates[i] EXCEPT !.currentSpeed = SpinSpeed,
                                                    !.status = "spinning"]]
                    /\ timers' = Append(timers,
                          Timer("boundary", 0, STOP_DELAY_MS,
                                EffectiveSegments(currentSpinState'.finalSegments)))
    /\ UNCHANGED << options, phase, rotation, restAngles, phaseOffsets, wobbleElapsed,
                    clockTime, pendingDelta, pointerdownBound, clickListeners,
                    completed, finalCalls, lastReel, frameInterval, boundaryAge,
                    boundaryCalls, callbackView, fnVars, containerFound, resizeVars, frameVars, globalVars >>

(* ------------------------------- timers ------------------------------- *)

\* The pending timer that fires next: the least remaining delay, the one
\* created first among equals.
NextTimer ==
    CHOOSE k \in 1..Len(timers) :
        \A j \in 1..Len(timers) :
            \/ timers[k].remaining < timers[j].remaining
            \/ (timers[k].remaining = timers[j].remaining /\ k <= j)

MinRemaining == timers[NextTimer].remaining

RemoveAt(s, k) == SubSeq(s, 1, k - 1) \o SubSeq(s, k + 1, Len(s))

\* The pending timers after ms milliseconds have passed.
Aged(s, ms) == [j \in 1..Len(s) |-> [s[j] EXCEPT !.remaining = s[j].remaining - ms]]

\* The stagger with the reels taken from the last to the first.
StaggerDelayReversed(i) == (cylinderCount - i) * STOP_DELAY_BETWEEN_CYLINDERS_MS

\* The delay of reel i's own stop callback (328); reel i here is index i-1 there.
StaggerDelay(i) == (i - 1) * STOP_DELAY_BETWEEN_CYLINDERS_MS

\* The per-reel timers the phase boundary callback creates (319-329).
RECURSIVE StaggerTimers(_, _)
StaggerTimers(i, finalSegments) ==
    IF i > cylinderCount THEN <<>>
    ELSE << Timer("stagger", i, StaggerDelay(i), finalSegments) >>
         \o StaggerTimers(i + 1, finalSegments)

\* Frames come frameInterval apart; a timer callback runs between two
\* frames when it falls due.
MayElapseTo(dt) == dt <= frameInterval

\* The clock after ms more milliseconds.
ClockAfter(ms) == (clockTime + ms) % WobblePeriodMs
ElapsedAfter(ms) == Min(wobbleElapsed + ms, wobbleEaseDuration)

\* The histories of elapsed time after ms more milliseconds: the spin's age
\* runs while a spin is in flight, the boundary's while the reels are stopped.
BoundaryAgeCap == (cylinderCount + 1) * STOP_DELAY_BETWEEN_CYLINDERS_MS
SpinAgeAfter(ms) ==
    IF currentGlobalState = "rest" THEN spinAge ELSE Min(spinAge + ms, STOP_DELAY_MS)
BoundaryAgeAfter(ms) ==
    IF currentGlobalState = "stopping" THEN Min(boundaryAge + ms, BoundaryAgeCap)
    ELSE boundaryAge

\* The callback of the outer setTimeout (316-330): the phase boundary.
phaseBoundary ==
    /\ timers # <<>>
    /\ timers[NextTimer].kind = "boundary"
    /\ MayElapseTo(pendingDelta + MinRemaining)
    /\ lastAction' = "phaseBoundary"
    /\ currentGlobalState' = "stopping"
    /\ timers' = Aged(RemoveAt(timers, NextTimer), MinRemaining)
                 \o StaggerTimers(1, timers[NextTimer].finalSegments)
    /\ pendingDelta' = pendingDelta + MinRemaining
    /\ clockTime' = ClockAfter(MinRemaining)
    /\ wobbleElapsed' = ElapsedAfter(MinRemaining)
    /\ spinAge' = SpinAgeAfter(MinRemaining)
    /\ boundaryAge' = 0
    /\ boundaryCalls' = boundaryCalls + 1
    /\ UNCHANGED << options, phase, rotation, cylinderStates, spinQueue, currentSpinState,
                    restAngles, phaseOffsets, pointerdownBound, clickListeners,
                    bodyClasses, completed, finalCalls, lastReel, frameInterval,
                    callbackView, fnVars, containerFound, resizeVars, frameVars, globalVars >>

\* A stagger callback that puts the reel to Rest.
StoppedStateResting(state, segment, theta) ==
    [state EXCEPT !.targetAngle = LandingAngle(segment, theta), !.status = "rest"]

\* A stagger callback that flips the status and assigns no target.
StoppedStateWithoutTarget(state, segment, theta) == [state EXCEPT !.status = "stopping"]

\* The callback of reel i's inner setTimeout (320-328).
StoppedState(state, segment, theta) ==
    [state EXCEPT !.targetAngle = LandingAngle(segment, theta), !.status = "stopping"]

\* A stagger callback that stops every reel on the segment of reel i.
StaggerStatesAll(states, i, segment, theta) ==
    [j \in Reels |-> StoppedState(states[j], segment, theta)]

\* this.cylinderStates after the callback of reel i: state is
\* this.cylinderStates[i] (321), no other entry is written.
StaggerStates(states, i, segment, theta) ==
    [states EXCEPT ![i] = StoppedState(states[i], segment, theta)]

staggerStop ==
    /\ timers # <<>>
    /\ timers[NextTimer].kind = "stagger"
    /\ MayElapseTo(pendingDelta + MinRemaining)
    /\ lastAction' = "staggerStop"
    /\ LET t == timers[NextTimer]
           i == t.reel
       IN  /\ cylinderStates' =
                 StaggerStates(cylinderStates, i, SegmentAt(t.finalSegments, i), rotation[i])
           /\ lastReel' = i
    /\ timers' = Aged(RemoveAt(timers, NextTimer), MinRemaining)
    /\ pendingDelta' = pendingDelta + MinRemaining
    /\ clockTime' = ClockAfter(MinRemaining)
    /\ wobbleElapsed' = ElapsedAfter(MinRemaining)
    /\ spinAge' = SpinAgeAfter(MinRemaining)
    /\ boundaryAge' = BoundaryAgeAfter(MinRemaining)
    /\ UNCHANGED << options, phase, rotation, currentGlobalState, spinQueue,
                    currentSpinState, restAngles, phaseOffsets, pointerdownBound,
                    clickListeners, bodyClasses, completed, finalCalls, frameInterval,
                    boundaryCalls, callbackView, fnVars, containerFound, resizeVars, frameVars, globalVars >>

(* ------------------------------ animate ------------------------------- *)

\* One reel's share of a frame (237-277): its angle and status afterwards.
SpinningFrame(angle, state, deltaTime) ==
    [angle |-> Add(angle, SpinStep(state.currentSpeed, deltaTime)), status |-> "spinning"]

StoppingFrame(angle, state, deltaTime) ==
    IF state.targetAngle = Null
    THEN [angle |-> angle, status |-> "stopping"]
    ELSE LET diff == Sub(state.targetAngle, angle)
         IN  IF diff = NaN
             THEN [angle |-> NaN, status |-> "stopping"]
             ELSE IF BelowSnapThreshold(diff)
             THEN [angle |-> state.targetAngle, status |-> "rest"]
             ELSE [angle |-> angle + DecelerationStep(diff, state.currentSpeed, deltaTime),
                   status |-> "stopping"]

\* A reel at rest that wobbles whatever the global phase.
RestFrameAlwaysWobbling(angle, i, currentTime, elapsed) ==
    [angle |-> WobbleAngle(restAngles[i], elapsed, currentTime, phaseOffsets[i]),
     status |-> "rest"]

\* A reel at rest (260-272): it wobbles only while the global phase is Rest.
RestFrame(angle, i, currentTime, elapsed) ==
    IF currentGlobalState = "rest"
    THEN [angle |-> WobbleAngle(restAngles[i], elapsed, currentTime, phaseOffsets[i]),
          status |-> "rest"]
    ELSE [angle |-> angle, status |-> "rest"]

ReelFrame(i, deltaTime, currentTime, elapsed) ==
    LET state == cylinderStates[i]
    IN  CASE state.status = "spinning" -> SpinningFrame(rotation[i], state, deltaTime)
          [] state.status = "stopping" -> StoppingFrame(rotation[i], state, deltaTime)
          [] state.status = "rest" -> RestFrame(rotation[i], i, currentTime, elapsed)

\* A frame update that also clears the target of a reel reaching rest.
FrameStateClearingTarget(state, status) ==
    [state EXCEPT !.status = status,
                  !.targetAngle = IF status = "rest" THEN Null ELSE @]

\* What a frame writes to a reel's state: its status alone (251).
FrameState(state, status) == [state EXCEPT !.status = status]

\* The settle test at the end of a frame (279-285), on the statuses the
\* frame has just produced.
\* every() satisfied by any reel that is not Stopping.
AllRestOrSpinning(statuses) == \A i \in Reels : statuses[i] # "stopping"

AllRest(statuses) == \A i \in Reels : statuses[i] = "rest"

\* A settle as soon as one reel is at Rest.
SettleDueAnyRest(statuses) ==
    currentGlobalState = "stopping" /\ \E i \in Reels : statuses[i] = "rest"

SettleDue(statuses) == currentGlobalState = "stopping" /\ AllRest(statuses)

\* The callback a settle invokes (342).
SettleCallback == currentSpinState.callback

\* The button is retired once the queue is empty (344).
ButtonRetired(queue) == Len(queue) = 0 /\ pointerdownBound

\* The callback invoked first, before finalizeSpin's assignments.
CallbackViewBeforeAssignments(angles, statuses) ==
    [currentGlobalState |-> currentGlobalState, restAngles |-> restAngles,
     wobbleElapsed |-> wobbleElapsed, statuses |-> statuses]

\* What the completion callback finds when it is invoked (342): the
\* assignments of 334-337 are done.
CallbackView(angles, statuses) ==
    [currentGlobalState |-> "rest", restAngles |-> angles, wobbleElapsed |-> 0,
     statuses |-> statuses]

\* A frame that renders before it updates the reels.
FrameTraceRenderFirst(settled) ==
    << "render", "update" >>
    \o (IF settled THEN << "finalizeSpin" >> ELSE <<>>)
    \o << "requestAnimationFrame" >>

\* What animate does, in order: the forEach over the reels (237-277), the
\* settle if it is due (279-285), the render (287) and the request for the
\* next frame (289).
FrameTrace(settled) ==
    << "update" >>
    \o (IF settled THEN << "finalizeSpin" >> ELSE <<>>)
    \o << "render", "requestAnimationFrame" >>

\* The requests for a frame among the steps of a frame.
FrameRequests(trace) ==
    Cardinality({ k \in DOMAIN trace : trace[k] = "requestAnimationFrame" })

\* finalizeSpin (333-355), on the angles and statuses the frame has just
\* produced.
finalizeSpin(angles, statuses) ==
    /\ currentGlobalState' = "rest"
    /\ restAngles' = angles
    /\ wobbleElapsed' = 0
    /\ bodyClasses' = StoppedClasses(bodyClasses)
    /\ callbackView' = CallbackView(angles, statuses)
    /\ completed' = Append(completed, SettleCallback)
    /\ IF ButtonRetired(spinQueue)
       THEN /\ pointerdownBound' = FALSE
            /\ clickListeners' = IF options.finalCallback THEN clickListeners + 1
                                 ELSE clickListeners
       ELSE UNCHANGED << pointerdownBound, clickListeners >>

\* animate (233-290): the frame callback, more milliseconds after the last
\* event, deltaTime after the last frame.
animate(more) ==
    LET deltaTime == pendingDelta + more
        currentTime == ClockAfter(more)
        elapsed == ElapsedAfter(more)
        frame == [i \in Reels |-> ReelFrame(i, deltaTime, currentTime, elapsed)]
        angles == [i \in Reels |-> frame[i].angle]
        statuses == [i \in Reels |-> frame[i].status]
    IN  /\ phase = "running"
        /\ framesPending > 0
        /\ deltaTime > 0
        /\ deltaTime = frameInterval
        /\ timers # <<>> => more <= MinRemaining
        /\ frameTrace' = FrameTrace(SettleDue(statuses))
        /\ framesPending' = framesPending - 1 + FrameRequests(frameTrace')
        /\ rotation' = angles
        /\ cylinderStates' = [i \in Reels |-> FrameState(cylinderStates[i], statuses[i])]
        /\ clockTime' = currentTime
        /\ pendingDelta' = 0
        /\ timers' = Aged(timers, more)
        /\ spinAge' = SpinAgeAfter(more)
        /\ boundaryAge' = BoundaryAgeAfter(more)
        /\ IF SettleDue(statuses)
           THEN /\ finalizeSpin(angles, statuses)
                /\ lastAction' = "finalizeSpin"
           ELSE /\ wobbleElapsed' = elapsed
                /\ lastAction' = "animate"
                /\ UNCHANGED << currentGlobalState, restAngles, bodyClasses, completed,
                                pointerdownBound, clickListeners, callbackView >>
        /\ UNCHANGED << options, phase, spinQueue, currentSpinState, phaseOffsets,
                        finalCalls, lastReel, frameInterval, boundaryCalls, fnVars,
                        containerFound, resizeVars, globalVars >>

(* ------------------------------- events ------------------------------- *)

\* The click listener finalizeSpin binds (348-352).
click ==
    /\ clickListeners > 0
    /\ finalCalls < MaxClicks
    /\ finalCalls' = finalCalls + clickListeners
    /\ lastAction' = "click"
    /\ UNCHANGED << options, phase, rotation, cylinderStates, currentGlobalState,
                    spinQueue, currentSpinState, restAngles, phaseOffsets, wobbleElapsed,
                    clockTime, pendingDelta, timers, pointerdownBound, clickListeners,
                    bodyClasses, completed, lastReel, frameInterval, spinAge,
                    boundaryAge, boundaryCalls, callbackView, fnVars, containerFound, resizeVars, frameVars, globalVars >>

(* -------------------------- pure functions, applied ------------------- *)

\* getSegmentAngle(fnSegment) on a reel of fnSegments symbols.
callGetSegmentAngle ==
    /\ fnCall = "none"
    /\ fnCall' = "getSegmentAngle"
    /\ fnResult' = SegmentAngle(fnSegment, fnSegments)
    /\ UNCHANGED << options, phase, rotation, cylinderStates, currentGlobalState,
                    spinQueue, currentSpinState, restAngles, phaseOffsets, wobbleElapsed,
                    clockTime, pendingDelta, timers, pointerdownBound, clickListeners,
                    bodyClasses, completed, finalCalls, lastAction, lastReel,
                    frameInterval, spinAge, boundaryAge, boundaryCalls, callbackView,
                    fnSegments, fnSegment, fnTheta, fnDiff, fnSmoothness,
                    containerFound, resizeVars, frameVars, globalVars >>

\* The target computed in the stagger callback (323-326) for a reel at angle
\* fnTheta that is to land on fnSegment.
callLandingAngle ==
    /\ fnCall = "none"
    /\ fnSegments = cylinderSegments
    /\ fnCall' = "LandingAngle"
    /\ fnResult' = LandingAngle(fnSegment, fnTheta)
    /\ UNCHANGED << options, phase, rotation, cylinderStates, currentGlobalState,
                    spinQueue, currentSpinState, restAngles, phaseOffsets, wobbleElapsed,
                    clockTime, pendingDelta, timers, pointerdownBound, clickListeners,
                    bodyClasses, completed, finalCalls, lastAction, lastReel,
                    frameInterval, spinAge, boundaryAge, boundaryCalls, callbackView,
                    fnSegments, fnSegment, fnTheta, fnDiff, fnSmoothness,
                    containerFound, resizeVars, frameVars, globalVars >>

\* The speed computed in animate's Stopping branch (253-254) for a reel
\* spinning at SpinSpeed that is fnDiff short of its target.
callStoppingSpeed ==
    /\ fnCall = "none"
    /\ fnSegments = cylinderSegments
    /\ fnTheta = 0
    /\ fnCall' = "StoppingSpeed"
    /\ fnResult' = StoppingSpeed(fnDiff, SpinSpeed, fnSmoothness)
    /\ UNCHANGED << options, phase, rotation, cylinderStates, currentGlobalState,
                    spinQueue, currentSpinState, restAngles, phaseOffsets, wobbleElapsed,
                    clockTime, pendingDelta, timers, pointerdownBound, clickListeners,
                    bodyClasses, completed, finalCalls, lastAction, lastReel,
                    frameInterval, spinAge, boundaryAge, boundaryCalls, callbackView,
                    fnSegments, fnSegment, fnTheta, fnDiff, fnSmoothness,
                    containerFound, resizeVars, frameVars, globalVars >>

(* ------------------------------- resize ------------------------------- *)

\* The spin state, which the resize handling neither reads nor writes.
spinVars == << options, phase, rotation, cylinderStates, currentGlobalState, spinQueue,
               currentSpinState, restAngles, phaseOffsets, wobbleElapsed, clockTime,
               pendingDelta, timers, pointerdownBound, clickListeners, bodyClasses,
               completed, finalCalls, lastAction, lastReel, frameInterval, spinAge,
               boundaryAge, boundaryCalls, callbackView >>

\* A clearTimeout that cancels nothing.
ClearTimeoutNothing(pending, id) == pending

\* if (this.resizeTimeout) clearTimeout(this.resizeTimeout) (369-371).
ClearTimeout(pending, id) ==
    IF id # 0 THEN { t \in pending : t.id # id } ELSE pending

\* The ResizeObserver callback (366-378) for the container, which has taken
\* the given size.
resizeObserverCallback(size) ==
    /\ resizeObserved
    /\ resizeEvents < MaxResizes
    /\ size # containerSize
    /\ containerSize' = size
    /\ resizeEvents' = resizeEvents + 1
    /\ resizeTimeout' = resizeEvents'
    /\ resizeTimers' = ClearTimeout(resizeTimers, resizeTimeout)
                         \cup { [id |-> resizeTimeout', remaining |-> RESIZE_DEBOUNCE_MS] }
    /\ bursts' = IF resizeTimers = {} THEN bursts + 1 ELSE bursts
    /\ sinceResize' = 0
    /\ UNCHANGED << spinVars, fnVars, containerFound, resizeObserved, rendererSize,
                    layoutRecomputes, frameVars, globalVars >>

\* The timer callback (373-376): onResize (384-397) sizes the renderer to
\* the container as it is now.
resizeTimeoutCallback ==
    \E t \in resizeTimers :
        /\ t.remaining = 0
        /\ rendererSize' = containerSize
        /\ layoutRecomputes' = layoutRecomputes + 1
        /\ resizeTimeout' = 0
        /\ resizeTimers' = resizeTimers \ {t}
        /\ UNCHANGED << spinVars, fnVars, containerFound, resizeObserved, containerSize,
                        resizeEvents, bursts, sinceResize, frameVars, globalVars >>

\* Time passes, no further than to the instant the next timer is due.
resizeElapse(ms) ==
    /\ resizeObserved
    /\ resizeTimers # {} \/ sinceResize < RESIZE_DEBOUNCE_MS
    /\ \A t \in resizeTimers : ms <= t.remaining
    /\ resizeTimers' = { [t EXCEPT !.remaining = @ - ms] : t \in resizeTimers }
    /\ sinceResize' = Min(RESIZE_DEBOUNCE_MS, sinceResize + ms)
    /\ UNCHANGED << spinVars, fnVars, containerFound, resizeObserved, containerSize,
                    rendererSize, resizeTimeout, resizeEvents, layoutRecomputes, bursts,
                    frameVars, globalVars >>

(* ------------------ the variant with one state for all reels ---------- *)

\* unnamed/part_004 35-404 keeps one currentState for all reels, a speed per
\* reel in currentSpeeds and a target per reel in targetAngles.  It shares
\* with index.ts the set-up, the clock, the wobble and the body classes: its
\* init() (96-131, with initializeSegments 215-227) takes the steps of init
\* above.

\* The guard of startNextSpin (325), negated: the call goes ahead.
OneStateSpinAccepted == currentState = "rest" /\ Len(spinStates) > 0

\* startNextSpin (324-349), the handler of the button's pointerdown.  The
\* request shifted from a queue that holds one is never null (332).
startNextSpinOneState ==
    /\ phase = "running"
    /\ pointerdownBound
    /\ lastAction' = "startNextSpin"
    /\ IF ~OneStateSpinAccepted
       THEN UNCHANGED << bodyClasses, currentSpinState, spinStates, optionsFinalSegments,
                         currentState, currentSpeeds, timers >>
       ELSE /\ bodyClasses' = GoingClasses(bodyClasses)
            /\ currentSpinState' = ShiftedRequest(spinStates)
            /\ spinStates' = ShiftedQueue(spinStates)
            /\ optionsFinalSegments' = EffectiveSegments(currentSpinState'.finalSegments)
            /\ currentState' = "spinning"
            /\ currentSpeeds' = [i \in Reels |->
                                    FloatTimes(currentSpeeds[i], spinSpeedMultiplier)]
            /\ timers' = Append(timers, Timer("stopOnSegments", 0, STOP_DELAY_MS, <<>>))
    /\ UNCHANGED << options, phase, rotation, cylinderStates, currentGlobalState,
                    spinQueue, restAngles, phaseOffsets, wobbleElapsed, clockTime,
                    pendingDelta, pointerdownBound, clickListeners, completed,
                    finalCalls, lastReel, frameInterval, spinAge, boundaryAge,
                    boundaryCalls, callbackView, fnVars, containerFound, resizeVars,
                    frameVars, rotationSpeeds, targetAngles >>

\* stopOnSegments (351-365), the callback of startNextSpin's setTimeout.
stopOnSegments ==
    /\ timers # <<>>
    /\ timers[NextTimer].kind = "stopOnSegments"
    /\ MayElapseTo(pendingDelta + MinRemaining)
    /\ lastAction' = "stopOnSegments"
    /\ targetAngles' = [i \in Reels |->
                           LandingAngle(SegmentAt(optionsFinalSegments, i), rotation[i])]
    /\ currentState' = "stopping"
    /\ timers' = Aged(RemoveAt(timers, NextTimer), MinRemaining)
    /\ pendingDelta' = pendingDelta + MinRemaining
    /\ clockTime' = ClockAfter(MinRemaining)
    /\ wobbleElapsed' = ElapsedAfter(MinRemaining)
    /\ UNCHANGED << options, phase, rotation, cylinderStates, currentGlobalState,
                    spinQueue, currentSpinState, restAngles, phaseOffsets,
                    pointerdownBound, clickListeners, bodyClasses, completed,
                    finalCalls, lastReel, frameInterval, spinAge, boundaryAge,
                    boundaryCalls, callbackView, fnVars, containerFound, resizeVars,
                    frameVars, rotationSpeeds, currentSpeeds, spinStates,
                    optionsFinalSegments >>

\* currentSpeeds[i] * deltaTime (278), in quanta: the speed is in
\* 1/SpeedScale rad/s and deltaTime in milliseconds.
SpinningStep(speed, deltaTime) == RoundDiv(speed * deltaTime * AngleScale, SpeedScale)

\* updateSpinningCylinders (276-280): the angles after the frame.
updateSpinningCylinders(deltaTime) ==
    [i \in Reels |-> Add(rotation[i], SpinningStep(currentSpeeds[i], deltaTime))]

\* remainingDistance > STOP_THRESHOLD (290), false for NaN.
RemainingAboveThreshold(remainingDistance) ==
    IsNum(remainingDistance) /\ remainingDistance * QuantumMicroRad > STOP_THRESHOLD

\* currentSpeeds[i] * Math.min(1, remainingDistance / (2 * Math.PI))
\* * deltaTime (293-296), in quanta.
StoppingStep(speed, remainingDistance, deltaTime) ==
    RoundDiv(RoundDiv(speed * deltaTime, SpeedScale) * Min(TwoPi, remainingDistance),
             TwoPiMilliRad)

\* One reel in updateStoppingCylinders' forEach (285-300): its angle after
\* the frame and whether it left allStopped alone.
StoppingReel(i, deltaTime) ==
    LET currentAngle == rotation[i]
        targetAngle == targetAngles[i]
        remainingDistance == Sub(targetAngle, currentAngle)
    IN  IF RemainingAboveThreshold(remainingDistance)
        THEN [angle |-> currentAngle
                        + StoppingStep(currentSpeeds[i], remainingDistance, deltaTime),
              stopped |-> FALSE]
        ELSE [angle |-> targetAngle, stopped |-> TRUE]

\* updateStoppingCylinders (282-305), the call of finalizeSpin apart.
updateStoppingCylinders(deltaTime) == [i \in Reels |-> StoppingReel(i, deltaTime)]

\* wobbleCylinders (262-274).
wobbleCylinders(currentTime, elapsed) ==
    [i \in Reels |-> WobbleAngle(restAngles[i], elapsed, currentTime, phaseOffsets[i])]

\* finalizeSpin (307-322), on the angles the frame has just produced.
finalizeSpinOneState(angles) ==
    /\ currentState' = "rest"
    /\ currentSpeeds' = [i \in Reels |-> FloatOver(currentSpeeds[i], spinSpeedMultiplier)]
    /\ restAngles' = angles
    /\ wobbleElapsed' = 0
    /\ bodyClasses' = StoppedClasses(bodyClasses)
    /\ completed' = Append(completed, currentSpinState.callback)

\* animate (245-260): the frame callback, more milliseconds after the last
\* event, deltaTime after the last frame.
animateOneState(more) ==
    LET deltaTime == pendingDelta + more
        currentTime == ClockAfter(more)
        elapsed == ElapsedAfter(more)
        stopping == updateStoppingCylinders(deltaTime)
        allStopped == currentState = "stopping" /\ \A i \in Reels : stopping[i].stopped
        angles == CASE currentState = "spinning" -> updateSpinningCylinders(deltaTime)
                    [] currentState = "stopping" -> [i \in Reels |-> stopping[i].angle]
                    [] currentState = "rest" -> wobbleCylinders(currentTime, elapsed)
    IN  /\ phase = "running"
        /\ framesPending > 0
        /\ deltaTime > 0
        /\ deltaTime = frameInterval
        /\ timers # <<>> => more <= MinRemaining
        /\ frameTrace' = FrameTrace(allStopped)
        /\ framesPending' = framesPending - 1 + FrameRequests(frameTrace')
        /\ rotation' = angles
        /\ clockTime' = currentTime
        /\ pendingDelta' = 0
        /\ timers' = Aged(timers, more)
        /\ IF allStopped
           THEN /\ finalizeSpinOneState(angles)
                /\ lastAction' = "finalizeSpin"
           ELSE /\ wobbleElapsed' = elapsed
                /\ lastAction' = "animate"
                /\ UNCHANGED << currentState, currentSpeeds, restAngles, bodyClasses,
                                completed >>
        /\ UNCHANGED << options, phase, cylinderStates, currentGlobalState, spinQueue,
                        currentSpinState, phaseOffsets, pointerdownBound, clickListeners,
                        finalCalls, lastReel, frameInterval, spinAge, boundaryAge,
                        boundaryCalls, callbackView, fnVars, containerFound, resizeVars,
                        rotationSpeeds, targetAngles, spinStates, optionsFinalSegments >>

(* ---------------------------- specification --------------------------- *)

\* The time between the last timer callback and the frame that follows it:
\* timers fall due on multiples of the stagger delay.
FrameOffsets == { k * STOP_DELAY_BETWEEN_CYLINDERS_MS : k \in 0..6 }

Next ==
    \/ \E phases \in PhaseChoices : init(phases)
    \/ startNextSpin
    \/ phaseBoundary
    \/ staggerStop
    \/ \E more \in FrameOffsets : animate(more)
    \/ click

Spec == Init /\ [][Next]_vars

\* The pure functions on their own: the inputs are drawn at the start, either
\* any cylinderSegments and a segment of it, or the configured
\* cylinderSegments, a segment and a reel angle, or a distance to the target
\* and a smoothness.
FnInit ==
    /\ Constructed
    /\ rotationSpeeds = <<>>
    /\ options.spinStates = <<>>
    /\ options.initialSegments = <<>>
    /\ containerFound
    /\ frameInterval \in DeltaTimes
    /\ fnCall = "none"
    /\ fnResult = 0
    /\ \/ /\ fnSegments \in 1..MaxSegments
          /\ fnSegment \in 1..fnSegments
          /\ fnTheta = 0
          /\ fnDiff = 0
          /\ fnSmoothness = Smoothness
       \/ /\ fnSegments = cylinderSegments
          /\ fnSegment \in 1..cylinderSegments
          /\ fnTheta \in Thetas
          /\ fnDiff = 0
          /\ fnSmoothness = Smoothness
       \/ /\ fnSegments = cylinderSegments
          /\ fnSegment = 1
          /\ fnTheta = 0
          /\ fnDiff \in Diffs
          /\ fnSmoothness \in Smoothnesses

FnNext == callGetSegmentAngle \/ callLandingAngle \/ callStoppingSpeed

FnSpec == FnInit /\ [][FnNext]_vars

\* Set-up and resize handling on their own, for every initialSegments list:
\* the resize handling shares no state with the spins.
ResizeSteps == { 50, 100, 150 }

ResizeInit ==
    /\ Constructed
    /\ rotationSpeeds = <<>>
    /\ options.spinStates \in { q \in Queues : Len(q) <= 1 }
    /\ frameInterval = 500
    /\ fnCall = "none"
    /\ fnSegments = cylinderSegments
    /\ fnSegment = 1
    /\ fnTheta = 0
    /\ fnDiff = 0
    /\ fnSmoothness = Smoothness
    /\ fnResult = 0

ResizeNext ==
    \/ \E phases \in PhaseChoices : init(phases)
    \/ \E size \in Sizes : resizeObserverCallback(size)
    \/ resizeTimeoutCallback
    \/ \E ms \in ResizeSteps : resizeElapse(ms)

ResizeSpec == ResizeInit /\ [][ResizeNext]_vars

\* requestAnimationFrame re-arms itself in every frame (289) and a pending
\* setTimeout callback runs once it is due.
FairSpec ==
    /\ Spec
    /\ WF_vars(\E more \in FrameOffsets : animate(more))
    /\ WF_vars(phaseBoundary)
    /\ WF_vars(staggerStop)

\* The variant with one state for all reels: every rotationSpeeds list, a
\* container that is there and no initialSegments.
OneStateInit ==
    /\ Constructed
    /\ containerFound
    /\ options.initialSegments = <<>>
    /\ frameInterval \in DeltaTimes
    /\ fnCall = "none"
    /\ fnSegments = cylinderSegments
    /\ fnSegment = 1
    /\ fnTheta = 0
    /\ fnDiff = 0
    /\ fnSmoothness = Smoothness
    /\ fnResult = 0

OneStateNext ==
    \/ \E phases \in PhaseChoices : init(phases)
    \/ startNextSpinOneState
    \/ stopOnSegments
    \/ \E more \in FrameOffsets : animateOneState(more)

OneStateSpec == OneStateInit /\ [][OneStateNext]_vars

\* requestAnimationFrame re-arms itself in every frame (unnamed/part_004 259)
\* and the pending setTimeout callback runs once it is due.
OneStateFairSpec ==
    /\ OneStateSpec
    /\ WF_vars(\E more \in FrameOffsets : animateOneState(more))
    /\ WF_vars(stopOnSegments)

(* ------------------------------- claims ------------------------------- *)

Popped == Len(options.spinStates) - Len(spinQueue)
Settled == Len(completed)
InFlight == currentGlobalState # "rest"
\* The last step was a frame (a frame that settles a spin is named after
\* finalizeSpin).
FrameRan == lastAction \in {"animate", "finalizeSpin"}

\* A stop list with one index in [1, cylinderSegments] per reel.
ValidStopList(finalSegments) ==
    /\ Len(finalSegments) = cylinderCount
    /\ \A i \in Reels : finalSegments[i] \in 1..cylinderSegments

\* The angle mapper as the specification states it:
\* 2*PI - ((s - 1) * (2*PI / n) + (2*PI / n) / 2).
angleMapper(s, n) == TwoPi - ((s - 1) * (TwoPi \div n) + (TwoPi \div n) \div 2)

\* C1: a startNextSpin call made while the global phase is Spinning or
\* Stopping leaves the queue, the current request, every reel's state and
\* angle, the global phase, the pending timers and the button binding as
\* they were.
C1_RejectedSpinChangesNothing ==
    [][(lastAction' = "startNextSpin" /\ currentGlobalState # "rest")
        => UNCHANGED << spinQueue, currentSpinState, cylinderStates, rotation,
                        currentGlobalState, timers, restAngles, bodyClasses,
                        pointerdownBound, completed >>]_vars

\* A trigger has been rejected while the reels were being stopped, with a
\* request still waiting in the queue.
C1_Witness ==
    /\ lastAction = "startNextSpin"
    /\ currentGlobalState = "stopping"
    /\ Len(spinQueue) > 0
    /\ timers # <<>>

\* C2: the requests taken from the queue exceed the settled spins by at most
\* one, and by exactly one while a spin is in flight.
C2_AtMostOneSpinInFlight ==
    /\ Popped - Settled \in {0, 1}
    /\ InFlight => Popped - Settled = 1

\* A second trigger has arrived while the first spin was still Spinning (no
\* settle yet, the phase boundary not yet passed) and one request is gone.
C2_Witness ==
    /\ lastAction = "startNextSpin"
    /\ currentGlobalState = "spinning"
    /\ \E i \in Reels : rotation[i] > TwoPi
    /\ Popped = 1
    /\ Settled = 0

\* C3: the completion callbacks fire in the order of the queue, none twice
\* and none skipped: the callbacks fired, the one in flight and those still
\* queued are, in this order, the callbacks of the queue as constructed.
C3_CallbacksFifo ==
    LET all == [j \in 1..Len(options.spinStates) |-> options.spinStates[j].callback]
        queued == [j \in 1..Len(spinQueue) |-> spinQueue[j].callback]
        flying == IF InFlight THEN << currentSpinState.callback >> ELSE <<>>
    IN  completed \o flying \o queued = all

\* Every queued request has settled and its callback has fired.
C3_Witness ==
    /\ phase = "running"
    /\ Settled = Len(options.spinStates)
    /\ Settled >= 2

\* C4: finalCallback has fired exactly once when the last spin has settled,
\* with no further input, and has not fired before.
C4_FinalCallbackOnceAtDrain ==
    (phase = "running" /\ Len(options.spinStates) > 0) =>
        finalCalls = (IF Settled = Len(options.spinStates) THEN 1 ELSE 0)

\* C5: when a spin settles every reel's angle and rest angle equal its
\* target, and the target is the requested segment's angle plus whole turns.
C5_LandsOnRequestedSymbol ==
    lastAction = "finalizeSpin" =>
        \A i \in Reels :
            LET target == cylinderStates[i].targetAngle
            IN  /\ IsNum(target)
                /\ rotation[i] = target
                /\ restAngles[i] = target
                /\ target % TwoPi =
                     angleMapper(currentSpinState.finalSegments[i], cylinderSegments)

\* A spin has just settled after a reel ran past its target on the way.
C5_Witness ==
    /\ lastAction = "finalizeSpin"
    /\ frameInterval = 1000

\* C6: every accepted spin with a valid stop list settles.
C6_EverySpinSettles ==
    (phase = "running" /\ InFlight /\ ValidStopList(currentSpinState.finalSegments))
        ~> (currentGlobalState = "rest")

\* C7: the target a stagger callback assigns lies strictly ahead of the
\* reel's angle at that instant.
C7_TargetAheadOfReel ==
    (/\ lastAction = "staggerStop"
     /\ SegmentAt(currentSpinState.finalSegments, lastReel) \in 1..cylinderSegments)
        => cylinderStates[lastReel].targetAngle > rotation[lastReel]

\* The last reel's target has been assigned in a later spin, the reel
\* several turns from zero.
C7_Witness ==
    /\ lastAction = "staggerStop"
    /\ lastReel = cylinderCount
    /\ Settled >= 1
    /\ rotation[lastReel] > 2 * TwoPi
    /\ IsNum(cylinderStates[lastReel].targetAngle)

\* C8: from one frame to the next the distance of a Stopping reel to its
\* target never grows, the frame interval being fixed and the stop list valid.
C8_DistanceNeverGrows ==
    [][\A i \in Reels :
          (/\ FrameRan'
           /\ ValidStopList(currentSpinState.finalSegments)
           /\ cylinderStates[i].status = "stopping")
          => Abs(cylinderStates[i].targetAngle - rotation'[i])
               <= Abs(cylinderStates[i].targetAngle - rotation[i])]_vars

\* C9: a frame never turns a Spinning or Stopping reel backward (the stop
\* list being valid, so that every angle is a number).
C9_NeverBackward ==
    [][\A i \in Reels :
          (/\ FrameRan'
           /\ ValidStopList(currentSpinState.finalSegments)
           /\ cylinderStates[i].status \in {"spinning", "stopping"})
          => rotation'[i] >= rotation[i]]_vars

\* C10: no step taken while a reel is Stopping changes that reel's target.
C10_TargetNeverRevised ==
    [][\A i \in Reels :
          cylinderStates[i].status = "stopping"
          => cylinderStates'[i].targetAngle = cylinderStates[i].targetAngle]_vars

\* Reel 1 is Stopping, has moved toward its target, and another reel's
\* stagger callback has just run.
C10_Witness ==
    /\ lastAction = "staggerStop"
    /\ lastReel = cylinderCount
    /\ cylinderStates[1].status = "stopping"
    /\ IsNum(cylinderStates[1].targetAngle)
    /\ cylinderStates[1].targetAngle - rotation[1] < TwoPi

\* C11: a startNextSpin call made at Rest with an empty queue changes
\* nothing: the global phase stays Rest, every reel stays in Rest with its
\* speed and target, no timer is scheduled, and the queue, the current
\* request, the angles and the body classes are as they were.
C11_EmptyQueueNoOp ==
    [][(lastAction' = "startNextSpin" /\ currentGlobalState = "rest" /\ spinQueue = <<>>)
        => /\ currentGlobalState' = "rest"
           /\ \A i \in Reels : cylinderStates'[i].status = "rest"
           /\ UNCHANGED << cylinderStates, timers, spinQueue, currentSpinState,
                           rotation, restAngles, bodyClasses, completed >>]_vars

\* The button has been pressed with nothing queued, after frames in which
\* the reels wobbled.
C11_Witness ==
    /\ lastAction = "startNextSpin"
    /\ currentGlobalState = "rest"
    /\ spinQueue = <<>>
    /\ options.spinStates = <<>>
    /\ rotation # restAngles

\* C12: a spin whose stop list is shorter than the reel count still settles:
\* the global phase returns to Rest with every reel at Rest at a defined
\* angle (the frame interval being one with which a full list settles:
\* speed * deltaTime below two turns).
C12_ShortListStillSettles ==
    (/\ phase = "running"
     /\ InFlight
     /\ Len(currentSpinState.finalSegments) < cylinderCount
     /\ frameInterval \in { d \in DeltaTimes : SpinSpeed * d < 2 * TwoPiMilliRad })
        ~> (/\ currentGlobalState = "rest"
            /\ \A i \in Reels : cylinderStates[i].status = "rest" /\ IsNum(rotation[i]))

\* C13: of a stop list longer than the reel count the first cylinderCount
\* entries are used, in order: the pending timers carry exactly those, the
\* target a stagger callback assigns is that of the reel's own entry, and at
\* the settle reel i shows entry i.
C13_LongListTruncated ==
    LET finalSegments == currentSpinState.finalSegments
    IN  Len(finalSegments) > cylinderCount =>
          /\ \A k \in 1..Len(timers) :
                timers[k].finalSegments = SubSeq(finalSegments, 1, cylinderCount)
          /\ lastAction = "staggerStop" =>
                cylinderStates[lastReel].targetAngle =
                    angleMapper(finalSegments[lastReel], cylinderSegments)
                    + ((rotation[lastReel] \div TwoPi) + 2) * TwoPi
          /\ lastAction = "finalizeSpin" =>
                \A i \in Reels :
                    rotation[i] % TwoPi = angleMapper(finalSegments[i], cylinderSegments)

\* A spin with a four-entry stop list has settled on three reels.
C13_Witness ==
    /\ lastAction = "finalizeSpin"
    /\ Len(currentSpinState.finalSegments) > cylinderCount
    /\ \A i \in Reels : rotation[i] = cylinderStates[i].targetAngle

\* C14: a reel's stagger callback runs its index (counted from 0) times the
\* per-reel delay after the phase boundary, so the reels leave Spinning in
\* index order; and a reel still Spinning while the global phase is Stopping
\* stays Spinning through a frame and advances by speed * deltaTime.
C14_StaggeredStop ==
    [][/\ lastAction' = "staggerStop" =>
            boundaryAge' = (lastReel' - 1) * STOP_DELAY_BETWEEN_CYLINDERS_MS
       /\ currentGlobalState' = "stopping" =>
            \A i, j \in Reels :
                (i < j /\ cylinderStates'[j].status # "spinning")
                    => cylinderStates'[i].status # "spinning"
       /\ \A i \in Reels :
            (/\ FrameRan'
             /\ currentGlobalState = "stopping"
             /\ cylinderStates[i].status = "spinning")
            => /\ cylinderStates'[i].status = "spinning"
               /\ cylinderStates[i].currentSpeed = rotationSpeed * spinSpeedMultiplier
               /\ rotation'[i] = rotation[i]
                     + cylinderStates[i].currentSpeed * frameInterval * AngleScale]_vars

\* A frame has run after the phase boundary with the first reel Stopping
\* and the last one still Spinning.
C14_Witness ==
    /\ lastAction = "animate"
    /\ currentGlobalState = "stopping"
    /\ cylinderStates[1].status = "stopping"
    /\ cylinderStates[cylinderCount].status = "spinning"
    /\ boundaryAge < (cylinderCount - 1) * STOP_DELAY_BETWEEN_CYLINDERS_MS
    /\ pendingDelta = 0

\* C15: while a spin is in flight the global phase is not Stopping and no
\* reel is Stopping before STOP_DELAY_MS have passed since the spin started,
\* and one phase boundary callback has run per spin taken from the queue
\* (none yet for a spin still in its Spinning phase).
C15_MinimumSpinDuration ==
    /\ (/\ InFlight
        /\ \/ currentGlobalState = "stopping"
           \/ \E i \in Reels : cylinderStates[i].status = "stopping")
       => spinAge >= STOP_DELAY_MS
    /\ boundaryCalls = Popped - (IF currentGlobalState = "spinning" THEN 1 ELSE 0)

\* The phase boundary of the second spin has just passed.
C15_Witness ==
    /\ lastAction = "phaseBoundary"
    /\ currentGlobalState = "stopping"
    /\ spinAge = STOP_DELAY_MS
    /\ boundaryCalls = 2
    /\ Settled = 1

\* C16: a reel that has reached Rest while the spin is still in flight stays
\* exactly at its target: its angle equals its targetAngle in every state
\* until the settle, and no frame moves it.
C16_NoWobbleInFlight ==
    [][\A i \in Reels :
          /\ (InFlight' /\ cylinderStates'[i].status = "rest")
               => rotation'[i] = cylinderStates'[i].targetAngle
          /\ (InFlight /\ cylinderStates[i].status = "rest" /\ FrameRan')
               => rotation'[i] = rotation[i]]_vars

\* In a second spin the first two reels came to Rest at their targets, away
\* from the rest angles the wobble would use, and a frame has run while the
\* last reel was still Stopping.
C16_Witness ==
    /\ lastAction = "animate"
    /\ currentGlobalState = "stopping"
    /\ Settled >= 1
    /\ cylinderStates[1].status = "rest"
    /\ cylinderStates[2].status = "rest"
    /\ cylinderStates[cylinderCount].status = "stopping"
    /\ rotation[1] = cylinderStates[1].targetAngle
    /\ rotation[1] # restAngles[1]

\* C17: getSegmentAngle(s) on a reel of n symbols, s in [1, n], is
\* 2*PI - ((s - 1) * (2*PI/n) + (2*PI/n)/2), lies strictly between 0 and
\* 2*PI, differs from the angle of every other segment of the reel, and for
\* s = 1 is 2*PI - (2*PI/n)/2.
C17_AngleMapper ==
    fnCall = "getSegmentAngle" =>
        /\ fnResult = angleMapper(fnSegment, fnSegments)
        /\ 0 < fnResult
        /\ fnResult < TwoPi
        /\ \A s \in 1..fnSegments :
              s # fnSegment => SegmentAngle(s, fnSegments) # fnResult
        /\ fnSegment = 1 => fnResult = TwoPi - (TwoPi \div fnSegments) \div 2

\* getSegmentAngle has been applied to the last segment of a reel with more
\* symbols than the configured one: the angle lies within one segment of 0.
C17_Witness ==
    /\ fnCall = "getSegmentAngle"
    /\ fnSegments > cylinderSegments
    /\ fnSegment = fnSegments
    /\ fnResult < TwoPi \div fnSegments

\* C18 as stated: the target a reel is given lies at least two full turns
\* ahead of the reel's angle.
C18_TwoTurnsAhead ==
    fnCall = "LandingAngle" => fnResult - fnTheta >= 2 * TwoPi

\* C18: the target a reel is given lies more than one and less than three
\* full turns ahead of the reel's angle, in the second turn after the one
\* the reel is in.
C18_MoreThanOneTurnAhead ==
    fnCall = "LandingAngle" =>
        /\ fnResult - fnTheta > TwoPi
        /\ fnResult - fnTheta < 3 * TwoPi
        /\ fnResult \div TwoPi = (fnTheta \div TwoPi) + 2

\* A target has been computed for a reel that is past the requested
\* segment's angle in its current turn: less than two turns remain.
C18_Witness ==
    /\ fnCall = "LandingAngle"
    /\ fnTheta > TwoPi
    /\ fnTheta % TwoPi > getSegmentAngle(fnSegment)
    /\ fnResult - fnTheta < 2 * TwoPi

\* C19: the target a stagger callback assigns is the angle of the reel's own
\* entry of the stop list plus (floor(theta / 2*PI) + 2) turns, theta being
\* the reel's angle in the state the callback runs in; and for the stop list
\* [3, 1, 4] the three targets, once all assigned, differ pairwise.
C19_TargetFromOwnAngle ==
    LET finalSegments == currentSpinState.finalSegments
    IN  lastAction = "staggerStop" =>
          /\ lastReel <= Len(finalSegments) =>
                cylinderStates[lastReel].targetAngle =
                    angleMapper(finalSegments[lastReel], cylinderSegments)
                    + ((rotation[lastReel] \div TwoPi) + 2) * TwoPi
          /\ (lastReel = cylinderCount /\ finalSegments = <<3, 1, 4>>) =>
                \A i, j \in Reels :
                    i # j => cylinderStates[i].targetAngle # cylinderStates[j].targetAngle

\* The last reel's target has been assigned for the stop list [3, 1, 4] after
\* a frame that ran since the phase boundary: the reel's angle is no longer
\* the one it had at the boundary.
C19_Witness ==
    /\ lastAction = "staggerStop"
    /\ lastReel = cylinderCount
    /\ currentSpinState.finalSegments = <<3, 1, 4>>
    /\ pendingDelta < boundaryAge
    /\ \A i \in Reels : IsNum(cylinderStates[i].targetAngle)

\* C20: an accepted startNextSpin takes exactly the head request from the
\* queue, sets the global phase to Spinning, and sets every reel to Spinning
\* at rotationSpeed * spinSpeedMultiplier, in the one step.
C20_AcceptedSpinStarts ==
    [][(lastAction' = "startNextSpin" /\ currentGlobalState = "rest" /\ spinQueue # <<>>)
        => /\ currentSpinState' = Head(spinQueue)
           /\ spinQueue' = Tail(spinQueue)
           /\ currentGlobalState' = "spinning"
           /\ \A i \in Reels :
                /\ cylinderStates'[i].status = "spinning"
                /\ cylinderStates'[i].currentSpeed = rotationSpeed * spinSpeedMultiplier]_vars

\* The second request has been taken after the first spin settled, with the
\* reels wobbling around the angles they landed on.
C20_Witness ==
    /\ lastAction = "startNextSpin"
    /\ currentGlobalState = "spinning"
    /\ Settled = 1
    /\ Popped = 2
    /\ spinAge = 0
    /\ \A i \in Reels : cylinderStates[i].status = "spinning"

\* C21: a completion callback is invoked only in a frame in which a reel
\* goes from Stopping to Rest and after which every reel is at Rest; when it
\* is invoked the global phase is Rest, restAngles hold the angles landed on
\* and the wobble ramp has been reset; and a frame that brings the last reel
\* to Rest invokes it.
C21_CallbackAtSettle ==
    [][/\ Len(completed') > Len(completed) =>
            /\ lastAction' = "finalizeSpin"
            /\ \E i \in Reels : /\ cylinderStates[i].status = "stopping"
                                /\ cylinderStates'[i].status = "rest"
            /\ \A i \in Reels : /\ cylinderStates'[i].status = "rest"
                                /\ callbackView'.statuses[i] = "rest"
                                /\ callbackView'.restAngles[i] = cylinderStates'[i].targetAngle
            /\ callbackView'.restAngles = rotation'
            /\ callbackView'.currentGlobalState = "rest"
            /\ callbackView'.wobbleElapsed = 0
       /\ (/\ FrameRan'
           /\ currentGlobalState = "stopping"
           /\ \A i \in Reels : cylinderStates'[i].status = "rest")
          => completed' = Append(completed, currentSpinState.callback)]_vars

\* The second spin's callback has just been invoked.
C21_Witness ==
    /\ lastAction = "finalizeSpin"
    /\ Settled = 2
    /\ callbackView.currentGlobalState = "rest"
    /\ callbackView.restAngles = rotation

\* C24: the speed of a Stopping reel is spinSpeed * min(1, |diff| /
\* (smoothness * 2*PI)): the spinning speed from smoothness * 2*PI on, below
\* it in proportion to |diff|; it lies between 0 and the spinning speed, is 0
\* at distance 0, and is strictly smaller for every smaller distance once
\* |diff| is at most smoothness * 2*PI. (Speeds are compared as multiples of
\* 1 / (smoothness * TwoPi) rad/s.)
C24_StoppingSpeedBounded ==
    fnCall = "StoppingSpeed" =>
        LET full == SpinSpeed * fnSmoothness * TwoPi
            capped == SmoothnessScale * Abs(fnDiff) >= fnSmoothness * TwoPi
        IN  /\ capped => fnResult = full
            /\ ~capped => fnResult = SpinSpeed * SmoothnessScale * Abs(fnDiff)
            /\ fnResult >= 0
            /\ fnResult <= full
            /\ fnDiff = 0 => fnResult = 0
            /\ SmoothnessScale * Abs(fnDiff) <= fnSmoothness * TwoPi =>
                  \A d \in Diffs :
                      Abs(d) < Abs(fnDiff) =>
                          StoppingSpeed(d, SpinSpeed, fnSmoothness) < fnResult

\* A reel more than a turn before its target, already slowed down under a
\* smoothness of 1.5.
C24_Witness ==
    /\ fnCall = "StoppingSpeed"
    /\ fnSmoothness = 150
    /\ fnDiff > TwoPi
    /\ fnResult < SpinSpeed * fnSmoothness * TwoPi
    /\ fnResult > 0

\* The state of the resize handling: at most one timer is pending, it is the
\* one this.resizeTimeout names and it is due RESIZE_DEBOUNCE_MS after the
\* last resize event; every burst of events has led to one recompute or has
\* its one recompute pending.
OneRecomputePerBurst ==
    /\ Cardinality(resizeTimers) <= 1
    /\ \A t \in resizeTimers : /\ t.id = resizeTimeout
                                /\ t.id = resizeEvents
                                /\ t.remaining = RESIZE_DEBOUNCE_MS - sinceResize
    /\ layoutRecomputes + Cardinality(resizeTimers) = bursts

\* C22: at most one layout recompute is pending at any time; a resize event
\* that arrives while one is pending cancels it and schedules a new one, so
\* a burst of events causes exactly one recompute, RESIZE_DEBOUNCE_MS after
\* the last event of the burst and for the size the container then has.
C22_ResizeDebounced ==
    /\ []OneRecomputePerBurst
    /\ [][(resizeEvents' > resizeEvents =>
              /\ resizeTimers' = { [id |-> resizeEvents', remaining |-> RESIZE_DEBOUNCE_MS] }
              /\ layoutRecomputes' = layoutRecomputes)
          /\ (layoutRecomputes' > layoutRecomputes =>
                /\ layoutRecomputes' = layoutRecomputes + 1
                /\ sinceResize = RESIZE_DEBOUNCE_MS
                /\ rendererSize' = containerSize
                /\ resizeTimers' = {})]_vars

\* A burst of three events has been answered by one recompute, for the size
\* of the last event.
C22_Witness ==
    /\ resizeEvents = 3
    /\ bursts = 1
    /\ layoutRecomputes = 1
    /\ resizeTimers = {}
    /\ rendererSize = containerSize

\* C29: when the container selector matches no element, init leaves
\* everything as the constructor left it: no frame runs, no trigger is bound,
\* no resize observer is installed, the global phase stays Rest, the queue
\* keeps its requests and no callback is invoked.
C29_NoContainerNoEffect ==
    (~containerFound /\ phase # "constructed") =>
        /\ phase = "noContainer"
        /\ lastAction = "init"
        /\ ~pointerdownBound
        /\ clickListeners = 0
        /\ ~resizeObserved
        /\ timers = <<>>
        /\ resizeTimers = {}
        /\ currentGlobalState = "rest"
        /\ \A i \in Reels : cylinderStates[i].status = "rest" /\ rotation[i] = 0
        /\ spinQueue = options.spinStates
        /\ completed = <<>>
        /\ finalCalls = 0
        /\ rendererSize = << 0, 0 >>

\* init has returned early with two requests in the queue.
C29_Witness ==
    /\ ~containerFound
    /\ phase = "noContainer"
    /\ lastAction = "init"
    /\ Len(spinQueue) = QueueLen

\* C30: after init, every reel's angle and rest angle are
\* getSegmentAngle(initialSegments[i]) when there is one initial segment per
\* reel, and 0 with any other number of them.
C30_InitialSegments ==
    (lastAction = "init" /\ phase = "running") =>
        \A i \in Reels :
            /\ restAngles[i] = rotation[i]
            /\ rotation[i] = IF Len(options.initialSegments) = cylinderCount
                             THEN getSegmentAngle(options.initialSegments[i])
                             ELSE 0

\* init has run with one initial segment too many and has applied none.
C30_Witness ==
    /\ lastAction = "init"
    /\ phase = "running"
    /\ Len(options.initialSegments) > cylinderCount
    /\ \A i \in Reels : rotation[i] = 0 /\ restAngles[i] = 0

\* One step of a status: none, or the next of the cycle.
CycleStep(from, to) ==
    \/ from = to
    \/ << from, to >> \in { << "rest", "spinning" >>, << "spinning", "stopping" >>,
                            << "stopping", "rest" >> }

\* C23: the global phase and every reel's status only ever go from Rest to
\* Spinning, from Spinning to Stopping and from Stopping to Rest.
C23_StatusCycle ==
    [][/\ CycleStep(currentGlobalState, currentGlobalState')
       /\ \A i \in Reels : CycleStep(cylinderStates[i].status, cylinderStates'[i].status)]_vars

\* In a second spin the first reel is back at Rest while the last one is on
\* its way to Stopping or in it.
C23_Witness ==
    /\ Settled = 1
    /\ currentGlobalState = "stopping"
    /\ cylinderStates[1].status = "rest"
    /\ cylinderStates[cylinderCount].status = "stopping"
    /\ lastAction = "animate"

\* C25: a Stopping reel's angle is never beyond its target (the stop list
\* being valid, so that both are numbers).
C25_NoOvershoot ==
    \A i \in Reels :
        (/\ cylinderStates[i].status = "stopping"
         /\ ValidStopList(currentSpinState.finalSegments)
         /\ IsNum(cylinderStates[i].targetAngle))
        => rotation[i] <= cylinderStates[i].targetAngle

C27_SnapAtThreshold ==
    [][\A i \in Reels :
          cylinderStates[i].status = "stopping" =>
            LET target == cylinderStates[i].targetAngle
                near == /\ IsNum(target)
                        /\ IsNum(rotation[i])
                        /\ Abs(target - rotation[i]) * QuantumMicroRad < SnapThresholdMicroRad
            IN  IF FrameRan' /\ near
                THEN cylinderStates'[i].status = "rest" /\ rotation'[i] = target
                ELSE cylinderStates'[i].status = "stopping"]_vars

\* The first reel has snapped to its target while the others are still
\* Stopping, in a run in which it had overshot on the way.
C27_Witness ==
    /\ lastAction = "animate"
    /\ frameInterval = 1000
    /\ cylinderStates[1].status = "rest"
    /\ rotation[1] = cylinderStates[1].targetAngle
    /\ cylinderStates[2].status = "stopping"
    /\ currentGlobalState = "stopping"

\* C28: the wobble ramp starts anew at init and at every settle, and while
\* the global phase is Rest every reel is within the eased amplitude of its
\* rest angle, the eased amplitude being 0 at the start of the ramp, growing
\* linearly with the time since and never above the amplitude.
C28_WobbleRamp ==
    LET eased == Min(amplitudeMilliRad * AngleScale,
                     (wobbleElapsed * amplitudeMilliRad * AngleScale) \div wobbleEaseDuration)
    IN  /\ (phase = "running" /\ lastAction \in {"init", "finalizeSpin"}) =>
              wobbleElapsed = 0
        /\ (phase = "running" /\ currentGlobalState = "rest") =>
              \A i \in Reels :
                  /\ Abs(rotation[i] - restAngles[i]) <= eased
                  /\ eased <= amplitudeMilliRad * AngleScale

\* After a settle the ramp is half way up and a reel is displaced from the
\* angle it landed on by the eased amplitude, half the full one.
C28_Witness ==
    /\ Settled >= 1
    /\ currentGlobalState = "rest"
    /\ lastAction = "animate"
    /\ 2 * wobbleElapsed = wobbleEaseDuration
    /\ \E i \in Reels : 2 * Abs(rotation[i] - restAngles[i]) = amplitudeMilliRad * AngleScale

\* C33: the global phase mirrors the reels: at global Rest every reel is at
\* Rest, at global Spinning every reel is Spinning, and a reel is Stopping
\* only at global Stopping.
C33_PhaseStatusConsistent ==
    /\ currentGlobalState = "rest" =>
          \A i \in Reels : cylinderStates[i].status = "rest"
    /\ currentGlobalState = "spinning" =>
          \A i \in Reels : cylinderStates[i].status = "spinning"
    /\ \A i \in Reels :
          cylinderStates[i].status = "stopping" => currentGlobalState = "stopping"

\* At global Stopping of a second spin the first reel is Stopping and the
\* last one still Spinning.
C33_Witness ==
    /\ Settled = 1
    /\ currentGlobalState = "stopping"
    /\ cylinderStates[1].status = "stopping"
    /\ cylinderStates[3].status = "spinning"

\* The timers a phase allows: none at Rest, the phase boundary alone at
\* Spinning, and at Stopping one stagger timer for each reel that is still
\* Spinning and for no other.
TimersOfThisSpin ==
    /\ currentGlobalState = "rest" => timers = <<>>
    /\ currentGlobalState = "spinning" =>
          Len(timers) = 1 /\ timers[1].kind = "boundary"
    /\ currentGlobalState = "stopping" =>
          /\ \A j \in 1..Len(timers) : timers[j].kind = "stagger"
          /\ \A i \in Reels :
                Cardinality({ j \in 1..Len(timers) : timers[j].reel = i })
                  = IF cylinderStates[i].status = "spinning" THEN 1 ELSE 0

\* C34: no timer of a spin is pending once the global phase is Rest again;
\* within a spin the phase boundary fires once and one stagger callback
\* fires per reel, on a reel that is Spinning in a spin that is Stopping, so
\* that no callback acts on a reel in a later spin.
C34_NoTimerOutlivesSpin ==
    /\ []TimersOfThisSpin
    /\ [][/\ lastAction' = "staggerStop" /\ timers' # timers =>
                /\ cylinderStates[lastReel'].status = "spinning"
                /\ currentGlobalState = "stopping"
                /\ currentSpinState' = currentSpinState
                /\ Len(timers') = Len(timers) - 1
          /\ lastAction' = "phaseBoundary" /\ timers' # timers =>
                /\ currentGlobalState = "spinning"
                /\ Len(timers') = cylinderCount]_vars

\* The second spin has settled after a request with one entry too many: no
\* timer is left.
C34_Witness ==
    /\ Settled = 2
    /\ lastAction = "finalizeSpin"
    /\ Len(currentSpinState.finalSegments) > cylinderCount
    /\ timers = <<>>

\* s is a suffix of t.
IsSuffix(s, t) ==
    /\ Len(s) <= Len(t)
    /\ s = SubSeq(t, Len(t) - Len(s) + 1, Len(t))

\* The spins started so far: the settled ones and the one in flight.
Started == Settled + (IF InFlight THEN 1 ELSE 0)

\* What is left of the initial queue.
QueueIsRestOfInitial ==
    /\ IsSuffix(spinQueue, options.spinStates)
    /\ Started + Len(spinQueue) = Len(options.spinStates)

\* C35: the queue is always a suffix of the initial queue, the spins started
\* and the queue's length add up to the initial length, and the queue
\* changes only in an accepted startNextSpin, which takes its first request.
C35_QueueConserved ==
    /\ []QueueIsRestOfInitial
    /\ [][spinQueue' # spinQueue =>
            /\ lastAction' = "startNextSpin"
            /\ currentGlobalState = "rest"
            /\ spinQueue' = Tail(spinQueue)
            /\ currentSpinState' = Head(spinQueue)]_vars

\* The second spin of a queue of two is in its Stopping phase, the queue
\* empty.
C35_Witness ==
    /\ Len(options.spinStates) = 2
    /\ spinQueue = <<>>
    /\ Settled = 1
    /\ currentGlobalState = "stopping"
    /\ lastAction = "animate"

\* C37: a reel that is Stopping has a target (targetAngle is not null).
C37_StoppingHasTarget ==
    \A i \in Reels :
        cylinderStates[i].status = "stopping" => cylinderStates[i].targetAngle # Null

\* The first stagger callback of the first spin has just run: the reel is
\* Stopping with a numeric target, the others have none yet.
C37_Witness ==
    /\ lastAction = "staggerStop"
    /\ Settled = 0
    /\ cylinderStates[1].status = "stopping"
    /\ IsNum(cylinderStates[1].targetAngle)
    /\ cylinderStates[2].targetAngle = Null

\* C31: every frame renders exactly once, after the update of the reels and
\* after the settle if there is one, and requests exactly one next frame;
\* once init has run exactly one frame is pending at any time, and none
\* before or without it.
C31_OneRenderOneRequest ==
    /\ framesPending = (IF phase = "running" THEN 1 ELSE 0)
    /\ FrameRan =>
          LET At(step) == { k \in DOMAIN frameTrace : frameTrace[k] = step }
          IN  /\ Cardinality(At("render")) = 1
              /\ Cardinality(At("update")) = 1
              /\ Cardinality(At("requestAnimationFrame")) = 1
              /\ Cardinality(At("finalizeSpin")) = (IF lastAction = "finalizeSpin" THEN 1 ELSE 0)
              /\ \A r \in At("render") :
                    /\ \A u \in At("update") : u < r
                    /\ \A f \in At("finalizeSpin") : f < r
                    /\ \A q \in At("requestAnimationFrame") : r < q

\* The frame that settled the second spin: update, settle, render, request.
C31_Witness ==
    /\ lastAction = "finalizeSpin"
    /\ Settled = 2
    /\ Len(frameTrace) = 4
    /\ frameTrace[3] = "render"
    /\ framesPending = 1

\* The body classes as the global phase and the settled spins give them.
ClassesMirrorPhase ==
    /\ ("is-spinning-going" \in bodyClasses) <=> InFlight
    /\ ("is-spinning-stopped" \in bodyClasses) <=>
          (currentGlobalState = "rest" /\ Settled >= 1)
    /\ ~({"is-spinning-going", "is-spinning-stopped"} \subseteq bodyClasses)

\* C36: the body class 'is-spinning-going' is there exactly while the
\* global phase is Spinning or Stopping, 'is-spinning-stopped' exactly while
\* it is Rest after a settled spin, never both; a rejected startNextSpin
\* changes no class.
C36_BodyClasses ==
    /\ []ClassesMirrorPhase
    /\ [][(lastAction' = "startNextSpin" /\ ~SpinAccepted) =>
              bodyClasses' = bodyClasses]_vars

\* The second spin is under way: the class of the settled first spin has
\* made way for the one of a spin going.
C36_Witness ==
    /\ Settled = 1
    /\ currentGlobalState = "spinning"
    /\ bodyClasses = {"is-spinning-going"}

\* C38: the stagger callback of reel i changes the status and the target of
\* reel i and nothing else of the reels, the queue or the global phase.
C38_StaggerTouchesOwnReel ==
    [][lastAction' = "staggerStop" =>
          /\ \A j \in Reels : j # lastReel' => cylinderStates'[j] = cylinderStates[j]
          /\ cylinderStates'[lastReel'].currentSpeed = cylinderStates[lastReel'].currentSpeed
          /\ cylinderStates'[lastReel'].status = "stopping"
          /\ rotation' = rotation
          /\ spinQueue' = spinQueue
          /\ currentSpinState' = currentSpinState
          /\ currentGlobalState' = currentGlobalState]_vars

\* The callback of the second reel has run while the first is Stopping and
\* the third Spinning.
C38_Witness ==
    /\ lastAction = "staggerStop"
    /\ lastReel = 2
    /\ cylinderStates[1].status = "stopping"
    /\ cylinderStates[2].status = "stopping"
    /\ cylinderStates[3].status = "spinning"
    /\ IsNum(cylinderStates[2].targetAngle)

\* C32: in the variant with one state for all reels and the default
\* rotationSpeeds (the empty list), a spin that startNextSpin has started
\* with one stop segment per reel settles: the state returns to Rest with
\* every reel on its target.
C32_DefaultSpeedsSettle ==
    (/\ phase = "running"
     /\ rotationSpeeds = <<>>
     /\ currentState = "spinning"
     /\ ValidStopList(currentSpinState.finalSegments))
        ~> (currentState = "rest" /\ \A i \in Reels : rotation[i] = targetAngles[i])

\* C39: in the variant with one state for all reels the speeds round-trip:
\* whenever no spin is in flight, after any number of settled spins, every
\* reel's speed is the configured one, and a press that is rejected at Rest
\* has left it so.
C39_IdleSpeedIsConfigured ==
    currentState = "rest" => currentSpeeds = ConstructedSpeeds(rotationSpeeds)

====
